---------------------------- MODULE Spec2Model ----------------------------
(***************************************************************************)
(* A model of the sale-transaction engine of rokok-kasir-pintar-app: the   *)
(* hosted store (tables products, sales, customers) and the React          *)
(* handlers that read and write it.  Every `await` of a handler is a       *)
(* point where another client's step can interleave, and every awaited     *)
(* store call can answer with an error.                                    *)
(***************************************************************************)
EXTENDS Integers, Sequences, FiniteSets, TLC

(***************************************************************************)
(* Bounds of the model.                                                    *)
(***************************************************************************)
MaxStock == 1
MaxQty == 2
MaxSales == 2
MaxDebtSales == 3
MaxDebtStock == 2
MaxFaults == 1
MaxPrice == 3
MaxQueries == 1
MaxAnalysisSales == 2
MaxAnalysisInserts == 1
Day == 2
DaysPerMonth == 8
TzOffset == 1
MaxAdjusted == 3
MaxEditSales == 1

Clients == {"c1", "c2"}
ProductIds == {"P1", "P2"}
CustomerIds == {"K1", "K2"}

\* The three revisions of SalesModal.handleSubmit that the repository holds.
Revisions == {"twoWrite", "inlineCustomer", "rpc"}

NullCustomer == "null"

VARIABLES
  rev,        \* which revision of SalesModal is deployed (fixed in a behaviour)
  cap,        \* how many sale rows a behaviour inserts at most (fixed)
  products,   \* table products / Produk: id -> row
  sales,      \* table sales / Penjualan: rows in insertion order
  customers,  \* table customers / Pelanggan: set of ids
  nextId,     \* sale ids handed out so far
  ui,         \* per client: the mounted component's React state
  toast,      \* the toast the last step showed, and to which client
  faults      \* store calls that have answered with an error so far

vars == <<rev, cap, products, sales, customers, nextId, ui, toast, faults>>


(***************************************************************************)
(* Rows and form inputs.                                                   *)
(***************************************************************************)
\* The empty result of a select (no rows).
NoRows == [p \in {} |-> 0]

\* What a quantity <Input> can hold: nothing, or the decimal text of a number.
QuantityInputs == {""} \cup {ToString(n) : n \in (0 - 1)..MaxQty}

\* What the price and stock <Input>s of the product dialog can hold.
PriceInputs == {ToString(n) : n \in 1..MaxPrice}

StockInputs == {ToString(n) : n \in 0..MaxStock}

\* The numbers whose decimal text a form of the model can hold.
Numerals == (0 - 1)..(MaxQty + MaxPrice + MaxStock)

\* parseInt and parseFloat on the texts above; the empty text gives NaN,
\* which no handler reaches because `!quantity` rejects it first.
parseInt(text) == CHOOSE n \in Numerals : ToString(n) = text

parseFloat(text) == CHOOSE n \in Numerals : ToString(n) = text

\* The local variables of a handler that is suspended at an await.
\* store_stock is not a variable of the code: it records the stock the store
\* held when the call made its first write.
NoCall ==
  [product_id |-> "", quantity |-> 0, payment_status |-> "", customer_id |-> "",
   total_revenue |-> 0, total_cost |-> 0, total_profit |-> 0,
   stock |-> 0, quantityDiff |-> 0, sale_id |-> 0, store_stock |-> 0]

\* No toast on screen; Toast(kind) is a toast without a stock figure in it.
NoToast == [client |-> "", kind |-> "none", product_id |-> "", remaining |-> 0]

Toast(kind) == [NoToast EXCEPT !.kind = kind]

\* toast({...}) called by client c.
Show(c, t) == toast' = [t EXCEPT !.client = c]

Quiet == toast' = NoToast

\* Whether the awaited store call answers with an error; the model lets at
\* most MaxFaults calls fail.
Answer(error) ==
  IF error THEN faults < MaxFaults /\ faults' = faults + 1
  ELSE faults' = faults

\* The state of a component that is not mounted.  editingSale and
\* editingProduct hold a row or nothing (null); DebtManagement keeps its
\* `customers` state in debtors, and expandedCustomer is "" for null.
NoView ==
  [page |-> "none", pc |-> "idle", products |-> NoRows, customers |-> {},
   sales |-> <<>>, editingSale |-> <<>>, editingProduct |-> <<>>,
   debtors |-> <<>>, expandedCustomer |-> "", debtTransactions |-> <<>>,
   call |-> NoCall]

\* A store with its products and customers on record and no sale yet, and
\* no component mounted.
Seeded(revisions, customerRows, stock, saleRows) ==
  /\ rev \in revisions
  /\ cap = saleRows
  /\ products = [p \in ProductIds |->
                   [purchase_price |-> 1,
                    selling_price |-> IF p = "P1" THEN 2 ELSE 3,
                    initial_stock |-> stock,
                    current_stock |-> stock]]
  /\ sales = <<>>
  /\ customers = customerRows
  /\ nextId = 0
  /\ ui = [c \in Clients |-> NoView]
  /\ toast = NoToast
  /\ faults = 0

Init == Seeded(Revisions, {"K1"}, MaxStock, MaxSales)

\* Calls that are past validation and will still insert a sale row.
PendingInserts ==
  Cardinality({c \in Clients : ui[c].pc \in {"createCustomer", "insertSale", "rpc"}})

\* The stock a table holds for a product, 0 when the row is gone.
StoreStock(product_id) ==
  IF product_id \in DOMAIN products THEN products[product_id].current_stock ELSE 0

\* update({current_stock}).eq('id', id): no row, no change and no error.
WithStock(productsTable, product_id, newStock) ==
  IF product_id \in DOMAIN productsTable
  THEN [productsTable EXCEPT ![product_id].current_stock = newStock]
  ELSE productsTable

(***************************************************************************)
(* SalesModal: recording a sale.                                           *)
(***************************************************************************)
\* fetchProducts of the modal.  The twoWrite and rpc revisions ask only for
\* products in stock (.gt('current_stock', 0)); inlineCustomer asks for all.
SalesModal_fetchProducts ==
  IF rev = "inlineCustomer"
  THEN products
  ELSE [p \in {q \in DOMAIN products : products[q].current_stock > 0} |-> products[p]]

\* useEffect on isOpen: fetchProducts() and fetchCustomers().
OpenSalesModal(c) ==
  /\ ui[c].page = "none"
  /\ ui' = [ui EXCEPT ![c] = [NoView EXCEPT !.page = "SalesModal",
                                             !.products = SalesModal_fetchProducts,
                                             !.customers = customers]]
  /\ Quiet
  /\ UNCHANGED <<rev, cap, products, sales, customers, nextId, faults>>

\* onClose (the Batal button).
CloseSalesModal(c) ==
  /\ ui[c].page = "SalesModal"
  /\ ui[c].pc = "idle"
  /\ ui' = [ui EXCEPT ![c] = NoView]
  /\ Quiet
  /\ UNCHANGED <<rev, cap, products, sales, customers, nextId, faults>>

\* The checks of handleSubmit before its first write, in the order of the
\* code; the result is the toast of the first check that fails, or "ok".
SalesModal_validate(view, selectedProduct, quantity, paymentStatus, selectedCustomer, newCustomerName) ==
  IF rev = "inlineCustomer"
  THEN
    IF selectedProduct = "" \/ quantity = "" THEN Toast("MissingInput")
    ELSE IF paymentStatus = "Hutang" /\ selectedCustomer = "" /\ newCustomerName = ""
      THEN Toast("MissingCustomer")
    ELSE IF selectedProduct \notin DOMAIN view.products THEN Toast("SaveFailed")
    ELSE IF parseInt(quantity) > view.products[selectedProduct].current_stock
      THEN [Toast("InsufficientStock") EXCEPT
              !.remaining = view.products[selectedProduct].current_stock,
              !.product_id = selectedProduct]
    ELSE Toast("ok")
  ELSE
    IF selectedProduct = "" \/ quantity = "" THEN Toast("MissingInput")
    ELSE IF paymentStatus = "Hutang" /\ selectedCustomer = "" THEN Toast("MissingCustomer")
    ELSE IF selectedProduct \notin DOMAIN view.products THEN Toast("ProductNotFound")
    ELSE IF parseInt(quantity) <= 0 THEN Toast("InvalidQuantity")
    ELSE IF parseInt(quantity) > view.products[selectedProduct].current_stock
      THEN [Toast("InsufficientStock") EXCEPT
              !.remaining = view.products[selectedProduct].current_stock,
              !.product_id = selectedProduct]
    ELSE Toast("ok")

\* A saleData that would keep the selected customer on a cash sale (the code
\* stores null unless the sale is Hutang).
SalesModal_saleData_keepingCustomer(view, selectedProduct, quantity, paymentStatus, selectedCustomer, newCustomerName) ==
  LET product == view.products[selectedProduct]
      quantityNum == parseInt(quantity)
      totalRevenue == product.selling_price * quantityNum
      totalCost == product.purchase_price * quantityNum
  IN [NoCall EXCEPT
        !.product_id = selectedProduct,
        !.quantity = quantityNum,
        !.total_revenue = totalRevenue,
        !.total_cost = totalCost,
        !.total_profit = totalRevenue - totalCost,
        !.payment_status = paymentStatus,
        !.customer_id = IF selectedCustomer # "" THEN selectedCustomer
                        ELSE NullCustomer,
        !.stock = product.current_stock]

\* A saleData that would take the revenue for the profit (the code subtracts
\* the cost).
SalesModal_saleData_profitIsRevenue(view, selectedProduct, quantity, paymentStatus, selectedCustomer, newCustomerName) ==
  LET product == view.products[selectedProduct]
      quantityNum == parseInt(quantity)
      totalRevenue == product.selling_price * quantityNum
      totalCost == product.purchase_price * quantityNum
  IN [NoCall EXCEPT
        !.product_id = selectedProduct,
        !.quantity = quantityNum,
        !.total_revenue = totalRevenue,
        !.total_cost = totalCost,
        !.total_profit = totalRevenue,
        !.payment_status = paymentStatus,
        !.customer_id = IF paymentStatus = "Hutang" THEN selectedCustomer
                        ELSE NullCustomer,
        !.stock = product.current_stock]

\* saleData, computed from the product row the modal holds.
SalesModal_saleData(view, selectedProduct, quantity, paymentStatus, selectedCustomer, newCustomerName) ==
  LET product == view.products[selectedProduct]
      quantityNum == parseInt(quantity)
      totalRevenue == product.selling_price * quantityNum
      totalCost == product.purchase_price * quantityNum
  IN [NoCall EXCEPT
        !.product_id = selectedProduct,
        !.quantity = quantityNum,
        !.total_revenue = totalRevenue,
        !.total_cost = totalCost,
        !.total_profit = totalRevenue - totalCost,
        !.payment_status = paymentStatus,
        !.customer_id = IF paymentStatus = "Hutang" THEN selectedCustomer
                        ELSE NullCustomer,
        !.stock = product.current_stock]

\* The await a call that passed validation reaches first.
SalesModal_firstAwait(paymentStatus, selectedCustomer, newCustomerName) ==
  IF rev = "rpc" THEN "rpc"
  ELSE IF rev = "inlineCustomer" /\ paymentStatus = "Hutang"
          /\ newCustomerName # "" /\ selectedCustomer = ""
    THEN "createCustomer"
  ELSE "insertSale"

\* The row insert([saleData]) adds to the table.
SaleRow(id, call) ==
  [id |-> id, product_id |-> call.product_id, customer_id |-> call.customer_id,
   quantity_sold |-> call.quantity, total_revenue |-> call.total_revenue,
   total_cost |-> call.total_cost, total_profit |-> call.total_profit,
   payment_status |-> call.payment_status, sale_timestamp |-> id]

\* A handleSubmit that would insert the sale row before it checks the stock
\* (the code checks first).
SalesModal_handleSubmit_insertFirst(c, selectedProduct, quantity, paymentStatus, selectedCustomer, newCustomerName) ==
  /\ ui[c].page = "SalesModal"
  /\ ui[c].pc = "idle"
  /\ rev # "inlineCustomer" => newCustomerName = ""
  /\ LET v == SalesModal_validate(ui[c], selectedProduct, quantity, paymentStatus,
                                  selectedCustomer, newCustomerName)
         call == SalesModal_saleData(ui[c], selectedProduct, quantity,
                    paymentStatus, selectedCustomer, newCustomerName)
     IN IF v.kind = "InsufficientStock"
        THEN /\ nextId + PendingInserts < cap
             /\ nextId' = nextId + 1
             /\ sales' = Append(sales, SaleRow(nextId + 1, call))
             /\ Show(c, v)
             /\ UNCHANGED ui
        ELSE /\ IF v.kind # "ok"
                THEN /\ Show(c, v)
                     /\ UNCHANGED ui
                ELSE /\ nextId + PendingInserts < cap
                     /\ ui' = [ui EXCEPT
                          ![c].pc = SalesModal_firstAwait(paymentStatus,
                                       selectedCustomer, newCustomerName),
                          ![c].call = call]
                     /\ Quiet
             /\ UNCHANGED <<sales, nextId>>
  /\ UNCHANGED <<rev, cap, products, customers, faults>>

\* handleSubmit up to its first await.
SalesModal_handleSubmit(c, selectedProduct, quantity, paymentStatus, selectedCustomer, newCustomerName) ==
  /\ ui[c].page = "SalesModal"
  /\ ui[c].pc = "idle"
  /\ rev # "inlineCustomer" => newCustomerName = ""
  /\ LET v == SalesModal_validate(ui[c], selectedProduct, quantity, paymentStatus,
                                  selectedCustomer, newCustomerName)
     IN IF v.kind # "ok"
        THEN /\ Show(c, v)
             /\ UNCHANGED ui
        ELSE /\ nextId + PendingInserts < cap
             /\ ui' = [ui EXCEPT
                  ![c].pc = SalesModal_firstAwait(paymentStatus, selectedCustomer,
                                                  newCustomerName),
                  ![c].call = SalesModal_saleData(ui[c], selectedProduct, quantity,
                                 paymentStatus, selectedCustomer, newCustomerName)]
             /\ Quiet
  /\ UNCHANGED <<rev, cap, products, sales, customers, nextId, faults>>

\* The catch block: the toast "Gagal menyimpan transaksi"; the modal stays open.
SalesModal_catch(c) ==
  /\ ui' = [ui EXCEPT ![c].pc = "idle", ![c].call = NoCall]
  /\ Show(c, Toast("SaveFailed"))

\* createNewCustomer (inlineCustomer revision): insert into customers, or throw.
SalesModal_createNewCustomer(c, error) ==
  /\ ui[c].pc = "createCustomer"
  /\ IF error
     THEN /\ SalesModal_catch(c)
          /\ UNCHANGED customers
     ELSE \E id \in CustomerIds \ customers :
            /\ customers' = customers \cup {id}
            /\ ui' = [ui EXCEPT ![c].pc = "insertSale", ![c].call.customer_id = id]
            /\ Quiet
  /\ Answer(error)
  /\ UNCHANGED <<rev, cap, products, sales, nextId>>

\* await supabase.from('sales').insert([saleData]).
SalesModal_insertSale(c, error) ==
  /\ ui[c].pc = "insertSale"
  /\ IF error
     THEN /\ SalesModal_catch(c)
          /\ UNCHANGED <<sales, nextId>>
     ELSE /\ nextId' = nextId + 1
          /\ sales' = Append(sales, SaleRow(nextId + 1, ui[c].call))
          /\ ui' = [ui EXCEPT ![c].pc = "updateStock",
                              ![c].call.sale_id = nextId + 1,
                              ![c].call.store_stock = StoreStock(ui[c].call.product_id)]
          /\ Quiet
  /\ Answer(error)
  /\ UNCHANGED <<rev, cap, products, customers>>

\* The stock the two-write revisions send: the modal's copy minus the quantity.
SalesModal_newStock(call) == call.stock - call.quantity

\* The toast of a sale that went through, then resetForm() and onClose().
SalesModal_success(c) ==
  /\ ui' = [ui EXCEPT ![c] = NoView]
  /\ Show(c, [Toast("SaleSaved") EXCEPT !.product_id = ui[c].call.product_id])

\* await supabase.from('products').update({current_stock}).eq('id', ...).
SalesModal_updateStock(c, error) ==
  /\ ui[c].pc = "updateStock"
  /\ IF error
     THEN /\ SalesModal_catch(c)
          /\ UNCHANGED products
     ELSE /\ products' = WithStock(products, ui[c].call.product_id,
                                   SalesModal_newStock(ui[c].call))
          /\ SalesModal_success(c)
  /\ Answer(error)
  /\ UNCHANGED <<rev, cap, sales, customers, nextId>>

\* The stored procedure handle_new_sale: one transaction that reads the row,
\* checks the stock, inserts the sale with totals from the row's prices and
\* decrements the stock; any failure raises and leaves nothing behind.
handle_new_sale_accepts(p_produk_id, p_jumlah_terjual) ==
  /\ p_produk_id \in DOMAIN products
  /\ p_jumlah_terjual > 0
  /\ p_jumlah_terjual <= products[p_produk_id].current_stock

handle_new_sale(c) ==
  LET call == ui[c].call
      row == products[call.product_id]
      revenue == row.selling_price * call.quantity
      cost == row.purchase_price * call.quantity
      stored == [call EXCEPT !.total_revenue = revenue, !.total_cost = cost,
                             !.total_profit = revenue - cost,
                             !.sale_id = nextId + 1]
  IN /\ nextId' = nextId + 1
     /\ sales' = Append(sales, SaleRow(nextId + 1, stored))
     /\ products' = [products EXCEPT
           ![call.product_id].current_stock = row.current_stock - call.quantity]
     /\ ui' = [ui EXCEPT ![c] = NoView]
     /\ Show(c, [Toast("SaleSaved") EXCEPT !.product_id = call.product_id])

\* await supabase.rpc('handle_new_sale', ...) (rpc revision).
SalesModal_rpc(c, error) ==
  /\ ui[c].pc = "rpc"
  /\ IF error \/ ~handle_new_sale_accepts(ui[c].call.product_id, ui[c].call.quantity)
     THEN /\ SalesModal_catch(c)
          /\ UNCHANGED <<products, sales, nextId>>
     ELSE handle_new_sale(c)
  /\ Answer(error)
  /\ UNCHANGED <<rev, cap, customers>>

PaymentStatuses == {"Lunas", "Hutang"}

\* The form of the sales modal, for a client that fills it from the given
\* products, quantities and payment statuses.
SalesModalForm(c, selectable, quantities, statuses) ==
  \/ OpenSalesModal(c)
  \/ CloseSalesModal(c)
  \/ \E selectedProduct \in selectable, quantity \in quantities,
        paymentStatus \in statuses,
        selectedCustomer \in ui[c].customers \cup {""},
        newCustomerName \in {"", "Baru"} :
       SalesModal_handleSubmit(c, selectedProduct, quantity, paymentStatus,
                               selectedCustomer, newCustomerName)

\* The awaited store calls of the two-write revisions, answering as `errors`
\* allows.
SalesModalWrites(c, errors) ==
  \/ \E error \in errors : SalesModal_insertSale(c, error)
  \/ \E error \in errors : SalesModal_updateStock(c, error)

(***************************************************************************)
(* SalesManagement: editing and deleting a sale (the supabase revision).   *)
(***************************************************************************)
Reverse(rows) == [i \in 1..Len(rows) |-> rows[Len(rows) + 1 - i]]

\* fetchSales: the sales whose product exists (products!inner), newest
\* first; the table is kept in the order of sale_timestamp.
fetchSales(salesTable, productsTable) ==
  Reverse(SelectSeq(salesTable, LAMBDA s : s.product_id \in DOMAIN productsTable))

\* What fetchSales() and fetchProducts() leave in the component's state.
SalesManagement_fetched(view, salesTable, productsTable) ==
  [view EXCEPT !.sales = fetchSales(salesTable, productsTable),
               !.products = productsTable]

\* useEffect on mount.
MountSalesManagement(c) ==
  /\ ui[c].page = "none"
  /\ ui' = [ui EXCEPT ![c] =
        SalesManagement_fetched([NoView EXCEPT !.page = "SalesManagement"],
                                sales, products)]
  /\ Quiet
  /\ UNCHANGED <<rev, cap, products, sales, customers, nextId, faults>>

\* Leaving the page unmounts the component.
LeaveSalesManagement(c) ==
  /\ ui[c].page = "SalesManagement"
  /\ ui[c].pc = "idle"
  /\ ui' = [ui EXCEPT ![c] = NoView]
  /\ Quiet
  /\ UNCHANGED <<rev, cap, products, sales, customers, nextId, faults>>

\* handleEdit(sale): the edit dialog opens on a row of the list.
SalesManagement_handleEdit(c, i) ==
  /\ ui[c].page = "SalesManagement"
  /\ ui[c].pc = "idle"
  /\ ui[c].editingSale = <<>>
  /\ i \in DOMAIN ui[c].sales
  /\ ui' = [ui EXCEPT ![c].editingSale = <<ui[c].sales[i]>>]
  /\ Quiet
  /\ UNCHANGED <<rev, cap, products, sales, customers, nextId, faults>>

\* The Batal button of the edit dialog: resetForm().
SalesManagement_cancelEdit(c) ==
  /\ ui[c].page = "SalesManagement"
  /\ ui[c].pc = "idle"
  /\ ui[c].editingSale # <<>>
  /\ ui' = [ui EXCEPT ![c].editingSale = <<>>]
  /\ Quiet
  /\ UNCHANGED <<rev, cap, products, sales, customers, nextId, faults>>

\* quantityDiff = quantity - oldQuantity.
quantityDiff(quantity, editingSale) == quantity - editingSale.quantity_sold

\* The check `quantityDiff > selectedProduct.current_stock`.
SalesManagement_insufficient(diff, selectedProduct) ==
  diff > selectedProduct.current_stock

\* handleSubmit of the edit dialog up to its first await.  The quantity
\* field is filled with the sale's quantity when the dialog opens; the
\* model leaves out the case where the user empties it.
SalesManagement_handleSubmit(c, product_id, quantity_sold) ==
  /\ ui[c].page = "SalesManagement"
  /\ ui[c].pc = "idle"
  /\ ui[c].editingSale # <<>>
  /\ IF product_id \notin DOMAIN ui[c].products
     THEN /\ Show(c, Toast("ProductNotFound"))
          /\ UNCHANGED ui
     ELSE LET selectedProduct == ui[c].products[product_id]
              editingSale == ui[c].editingSale[1]
              quantity == parseInt(quantity_sold)
              diff == quantityDiff(quantity, editingSale)
              totalRevenue == selectedProduct.selling_price * quantity
              totalCost == selectedProduct.purchase_price * quantity
          IN IF SalesManagement_insufficient(diff, selectedProduct)
             THEN /\ Show(c, [Toast("InsufficientStock") EXCEPT
                                !.product_id = product_id,
                                !.remaining = selectedProduct.current_stock])
                  /\ UNCHANGED ui
             ELSE /\ ui' = [ui EXCEPT ![c].pc = "updateSale",
                              ![c].call = [NoCall EXCEPT
                                 !.product_id = product_id,
                                 !.quantity = quantity,
                                 !.total_revenue = totalRevenue,
                                 !.total_cost = totalCost,
                                 !.total_profit = totalRevenue - totalCost,
                                 !.sale_id = editingSale.id,
                                 !.quantityDiff = diff,
                                 !.stock = selectedProduct.current_stock]]
                  /\ Quiet
  /\ UNCHANGED <<rev, cap, products, sales, customers, nextId, faults>>

\* The catch blocks of the page: a toast; nothing is fetched again.
SalesManagement_catch(c, kind) ==
  /\ ui' = [ui EXCEPT ![c].pc = "idle", ![c].call = NoCall]
  /\ Show(c, Toast(kind))

\* An update of a sale that would also write the cash status and drop the
\* customer (the code sends the product, the quantity and the totals only).
UpdatedSale_asCashSale(row, call) ==
  [row EXCEPT !.product_id = call.product_id,
              !.quantity_sold = call.quantity,
              !.total_revenue = call.total_revenue,
              !.total_cost = call.total_cost,
              !.total_profit = call.total_profit,
              !.payment_status = "Lunas",
              !.customer_id = NullCustomer]

\* update(...).eq('id', editingSale.id) on the sales table.
UpdatedSale(row, call) ==
  [row EXCEPT !.product_id = call.product_id,
              !.quantity_sold = call.quantity,
              !.total_revenue = call.total_revenue,
              !.total_cost = call.total_cost,
              !.total_profit = call.total_profit]

SalesManagement_updateSale(c, error) ==
  /\ ui[c].pc = "updateSale"
  /\ IF error
     THEN /\ SalesManagement_catch(c, "EditFailed")
          /\ UNCHANGED sales
     ELSE /\ sales' = [i \in DOMAIN sales |->
                         IF sales[i].id = ui[c].call.sale_id
                         THEN UpdatedSale(sales[i], ui[c].call)
                         ELSE sales[i]]
          /\ ui' = [ui EXCEPT ![c].pc = "updateSaleStock",
                              ![c].call.store_stock = StoreStock(ui[c].call.product_id)]
          /\ Quiet
  /\ Answer(error)
  /\ UNCHANGED <<rev, cap, products, customers, nextId>>

\* newStock = selectedProduct.current_stock - quantityDiff.
SalesManagement_newStock(call) == call.stock - call.quantityDiff

\* The end of a handler that went through: the toast, fetchSales(),
\* fetchProducts() and, after an edit, resetForm().
SalesManagement_done(c, kind, salesTable, productsTable) ==
  /\ ui' = [ui EXCEPT ![c] =
        SalesManagement_fetched([ui[c] EXCEPT !.pc = "idle", !.call = NoCall,
                                               !.editingSale = <<>>],
                                salesTable, productsTable)]
  /\ Show(c, [Toast(kind) EXCEPT !.product_id = ui[c].call.product_id])

SalesManagement_updateSaleStock(c, error) ==
  /\ ui[c].pc = "updateSaleStock"
  /\ IF error
     THEN /\ SalesManagement_catch(c, "EditFailed")
          /\ UNCHANGED products
     ELSE /\ products' = WithStock(products, ui[c].call.product_id,
                                   SalesManagement_newStock(ui[c].call))
          /\ SalesManagement_done(c, "EditSaved", sales, products')
  /\ Answer(error)
  /\ UNCHANGED <<rev, cap, sales, customers, nextId>>

\* handleDelete(saleId) after window.confirm, up to its first await.
SalesManagement_handleDelete(c, i) ==
  /\ ui[c].page = "SalesManagement"
  /\ ui[c].pc = "idle"
  /\ ui[c].editingSale = <<>>
  /\ i \in DOMAIN ui[c].sales
  /\ LET saleToDelete == ui[c].sales[i]
     IN ui' = [ui EXCEPT ![c].pc = "deleteSale",
                         ![c].call = [NoCall EXCEPT
                            !.sale_id = saleToDelete.id,
                            !.product_id = saleToDelete.product_id,
                            !.quantity = saleToDelete.quantity_sold]]
  /\ Quiet
  /\ UNCHANGED <<rev, cap, products, sales, customers, nextId, faults>>

\* delete().eq('id', saleId).
SalesManagement_deleteSale(c, error) ==
  /\ ui[c].pc = "deleteSale"
  /\ IF error
     THEN /\ SalesManagement_catch(c, "DeleteFailed")
          /\ UNCHANGED sales
     ELSE /\ sales' = SelectSeq(sales, LAMBDA s : s.id # ui[c].call.sale_id)
          /\ ui' = [ui EXCEPT ![c].pc = "fetchStock",
                              ![c].call.store_stock = StoreStock(ui[c].call.product_id)]
          /\ Quiet
  /\ Answer(error)
  /\ UNCHANGED <<rev, cap, products, customers, nextId>>

\* select('current_stock').eq('id', product_id).single(): an error when the
\* call fails or the row is gone.
SalesManagement_fetchStock(c, error) ==
  /\ ui[c].pc = "fetchStock"
  /\ IF error \/ ui[c].call.product_id \notin DOMAIN products
     THEN SalesManagement_catch(c, "DeleteFailed")
     ELSE /\ ui' = [ui EXCEPT ![c].pc = "restoreStock",
                       ![c].call.stock = products[ui[c].call.product_id].current_stock]
          /\ Quiet
  /\ Answer(error)
  /\ UNCHANGED <<rev, cap, products, sales, customers, nextId>>

\* current_stock: currentProduct.current_stock + saleToDelete.quantity_sold.
SalesManagement_restoredStock(call) == call.stock + call.quantity

SalesManagement_restoreStock(c, error) ==
  /\ ui[c].pc = "restoreStock"
  /\ IF error
     THEN /\ SalesManagement_catch(c, "DeleteFailed")
          /\ UNCHANGED products
     ELSE /\ products' = WithStock(products, ui[c].call.product_id,
                                   SalesManagement_restoredStock(ui[c].call))
          /\ SalesManagement_done(c, "DeleteSaved", sales, products')
  /\ Answer(error)
  /\ UNCHANGED <<rev, cap, sales, customers, nextId>>

\* The steps of the sales page, for a client that fills the edit dialog from
\* the given products and quantities.
SalesManagementNext(c, selectable, quantities, errors) ==
  \/ MountSalesManagement(c)
  \/ LeaveSalesManagement(c)
  \/ \E i \in 1..cap : SalesManagement_handleEdit(c, i)
  \/ SalesManagement_cancelEdit(c)
  \/ \E product_id \in selectable, quantity_sold \in quantities :
       SalesManagement_handleSubmit(c, product_id, quantity_sold)
  \/ \E error \in errors : SalesManagement_updateSale(c, error)
  \/ \E error \in errors : SalesManagement_updateSaleStock(c, error)
  \/ \E i \in 1..cap : SalesManagement_handleDelete(c, i)
  \/ \E error \in errors : SalesManagement_deleteSale(c, error)
  \/ \E error \in errors : SalesManagement_fetchStock(c, error)
  \/ \E error \in errors : SalesManagement_restoreStock(c, error)

(***************************************************************************)
(* DebtManagement: the debtors' list and marking a debt as paid.           *)
(***************************************************************************)
\* The forEach of fetchCustomersWithDebt: one entry per customer, in the
\* order of first appearance, with the revenues of its rows added up.
RECURSIVE customerDebtMap(_, _)
customerDebtMap(salesData, map) ==
  IF salesData = <<>> THEN map
  ELSE LET sale == Head(salesData)
           customerId == sale.customer_id
           has == {i \in DOMAIN map : map[i].id = customerId}
       IN customerDebtMap(Tail(salesData),
            IF has # {}
            THEN [i \in DOMAIN map |->
                    IF i \in has
                    THEN [map[i] EXCEPT !.total_debt = @ + sale.total_revenue]
                    ELSE map[i]]
            ELSE Append(map, [id |-> customerId,
                              total_debt |-> sale.total_revenue]))

\* A fetchCustomersWithDebt that would leave out the filter on
\* statusPembayaran (the code has it).
fetchCustomersWithDebt_anyStatus(salesTable, customersTable) ==
  customerDebtMap(
    SelectSeq(salesTable, LAMBDA s : /\ s.customer_id # NullCustomer
                                     /\ s.customer_id \in customersTable),
    <<>>)

\* fetchCustomersWithDebt: the rows with statusPembayaran 'Hutang' and a
\* pelanggan_id, those whose customer row exists, grouped by customer.
fetchCustomersWithDebt(salesTable, customersTable) ==
  customerDebtMap(
    SelectSeq(salesTable, LAMBDA s : /\ s.payment_status = "Hutang"
                                     /\ s.customer_id # NullCustomer
                                     /\ s.customer_id \in customersTable),
    <<>>)

\* A list that would leave out the filter on the payment status (the code
\* asks for .eq('statusPembayaran', 'Hutang')).
fetchCustomerDebtTransactions_anyStatus(salesTable, customerId) ==
  LET rows == SelectSeq(salesTable, LAMBDA s : s.customer_id = customerId)
  IN Reverse([i \in DOMAIN rows |->
                [id |-> rows[i].id, product_id |-> rows[i].product_id,
                 quantity_sold |-> rows[i].quantity_sold,
                 total_revenue |-> rows[i].total_revenue,
                 sale_timestamp |-> rows[i].sale_timestamp]])

\* fetchCustomerDebtTransactions: the customer's 'Hutang' rows, newest first.
fetchCustomerDebtTransactions(salesTable, customerId) ==
  LET rows == SelectSeq(salesTable, LAMBDA s : /\ s.customer_id = customerId
                                               /\ s.payment_status = "Hutang")
  IN Reverse([i \in DOMAIN rows |->
                [id |-> rows[i].id, product_id |-> rows[i].product_id,
                 quantity_sold |-> rows[i].quantity_sold,
                 total_revenue |-> rows[i].total_revenue,
                 sale_timestamp |-> rows[i].sale_timestamp]])

\* useEffect on mount: fetchCustomersWithDebt().
MountDebtManagement(c) ==
  /\ ui[c].page = "none"
  /\ ui' = [ui EXCEPT ![c] =
        [NoView EXCEPT !.page = "DebtManagement",
                       !.debtors = fetchCustomersWithDebt(sales, customers)]]
  /\ Quiet
  /\ UNCHANGED <<rev, cap, products, sales, customers, nextId, faults>>

\* Leaving the page unmounts the component.
LeaveDebtManagement(c) ==
  /\ ui[c].page = "DebtManagement"
  /\ ui' = [ui EXCEPT ![c] = NoView]
  /\ Quiet
  /\ UNCHANGED <<rev, cap, products, sales, customers, nextId, faults>>

\* The callback of the realtime channel on Penjualan, which the channel
\* calls some time after a change of the table.  The callback was created by
\* the first render, where expandedCustomer is null, so it fetches the
\* debtors and never the transactions.
DebtManagement_onSalesChange(c) ==
  /\ ui[c].page = "DebtManagement"
  /\ ui' = [ui EXCEPT ![c].debtors = fetchCustomersWithDebt(sales, customers)]
  /\ Quiet
  /\ UNCHANGED <<rev, cap, products, sales, customers, nextId, faults>>

\* handleCustomerClick: collapse the open customer, or expand another one
\* and fetch its transactions.
handleCustomerClick(c, customerId) ==
  /\ ui[c].page = "DebtManagement"
  /\ \E i \in DOMAIN ui[c].debtors : ui[c].debtors[i].id = customerId
  /\ ui' = [ui EXCEPT ![c] =
        IF ui[c].expandedCustomer = customerId
        THEN [ui[c] EXCEPT !.expandedCustomer = "", !.debtTransactions = <<>>]
        ELSE [ui[c] EXCEPT !.expandedCustomer = customerId,
                           !.debtTransactions =
                              fetchCustomerDebtTransactions(sales, customerId)]]
  /\ Quiet
  /\ UNCHANGED <<rev, cap, products, sales, customers, nextId, faults>>

\* An update that would also clear the sale's customer reference (the code
\* sends statusPembayaran only).
PaidSales_clearingCustomer(salesTable, transactionId) ==
  [i \in DOMAIN salesTable |->
     IF salesTable[i].id = transactionId
     THEN [salesTable[i] EXCEPT !.payment_status = "Lunas",
                                !.customer_id = NullCustomer]
     ELSE salesTable[i]]

\* An update that would flip the status, so that a second call undoes the
\* first (the code always writes 'Lunas').
PaidSales_toggling(salesTable, transactionId) ==
  [i \in DOMAIN salesTable |->
     IF salesTable[i].id = transactionId
     THEN [salesTable[i] EXCEPT !.payment_status =
             IF @ = "Hutang" THEN "Lunas" ELSE "Hutang"]
     ELSE salesTable[i]]

\* update({ statusPembayaran: 'Lunas' }).eq('id', transactionId).
PaidSales(salesTable, transactionId) ==
  [i \in DOMAIN salesTable |->
     IF salesTable[i].id = transactionId
     THEN [salesTable[i] EXCEPT !.payment_status = "Lunas"]
     ELSE salesTable[i]]

\* markAsPaid on a row of the expanded customer's transactions.  Nothing is
\* fetched afterwards: the lists wait for the realtime callback.
markAsPaid(c, i, error) ==
  /\ ui[c].page = "DebtManagement"
  /\ i \in DOMAIN ui[c].debtTransactions
  /\ IF error
     THEN /\ Show(c, Toast("MarkPaidFailed"))
          /\ UNCHANGED sales
     ELSE /\ sales' = PaidSales(sales, ui[c].debtTransactions[i].id)
          /\ Show(c, Toast("MarkedPaid"))
  /\ Answer(error)
  /\ UNCHANGED <<rev, cap, products, customers, nextId, ui>>

\* The steps of the debt page.
DebtManagementNext(c, errors) ==
  \/ MountDebtManagement(c)
  \/ LeaveDebtManagement(c)
  \/ DebtManagement_onSalesChange(c)
  \/ \E customerId \in CustomerIds : handleCustomerClick(c, customerId)
  \/ \E i \in 1..cap, error \in errors : markAsPaid(c, i, error)

(***************************************************************************)
(* ProductManagement: editing a product (the supabase revision).           *)
(***************************************************************************)
\* useEffect on mount: fetchProducts().
MountProductManagement(c) ==
  /\ ui[c].page = "none"
  /\ ui' = [ui EXCEPT ![c] = [NoView EXCEPT !.page = "ProductManagement",
                                             !.products = products]]
  /\ Quiet
  /\ UNCHANGED <<rev, cap, products, sales, customers, nextId, faults>>

\* Leaving the page unmounts the component.
LeaveProductManagement(c) ==
  /\ ui[c].page = "ProductManagement"
  /\ ui' = [ui EXCEPT ![c] = NoView]
  /\ Quiet
  /\ UNCHANGED <<rev, cap, products, sales, customers, nextId, faults>>

\* handleEdit(product): the dialog opens on a row of the list.  store_stock
\* is not a field of the code: it records the stock the store held when the
\* dialog opened.
ProductManagement_handleEdit(c, id) ==
  /\ ui[c].page = "ProductManagement"
  /\ ui[c].editingProduct = <<>>
  /\ id \in DOMAIN ui[c].products
  /\ ui' = [ui EXCEPT ![c].editingProduct =
                <<[id |-> id, row |-> ui[c].products[id],
                   store_stock |-> StoreStock(id)]>>]
  /\ Quiet
  /\ UNCHANGED <<rev, cap, products, sales, customers, nextId, faults>>

\* productData of an update: the form's prices and initial stock, and the
\* current stock of the row the dialog was opened on.
productData(editingProduct, purchase_price, selling_price, initial_stock) ==
  [purchase_price |-> parseFloat(purchase_price),
   selling_price |-> parseFloat(selling_price),
   initial_stock |-> parseInt(initial_stock),
   current_stock |-> editingProduct.row.current_stock]

\* update(productData).eq('id', editingProduct.id): no row, no change.
UpdatedProducts(productsTable, id, data) ==
  IF id \in DOMAIN productsTable
  THEN [productsTable EXCEPT ![id] = data]
  ELSE productsTable

\* What handleSubmit does to the page when the update went through:
\* fetchProducts(), resetForm() and the dialog closes.
ProductManagement_saved(c, productsTable) ==
  /\ ui' = [ui EXCEPT ![c].products = productsTable, ![c].editingProduct = <<>>]
  /\ Show(c, Toast("ProductSaved"))

\* A handleSubmit that would also bring the product's sales to the new
\* prices (the code does not).
ProductManagement_handleSubmit_repricing(c, purchase_price, selling_price, initial_stock, error) ==
  /\ ui[c].page = "ProductManagement"
  /\ ui[c].editingProduct # <<>>
  /\ LET editingProduct == ui[c].editingProduct[1]
         data == productData(editingProduct, purchase_price, selling_price,
                             initial_stock)
     IN IF error
        THEN /\ Show(c, Toast("ProductSaveFailed"))
             /\ UNCHANGED <<products, sales, ui>>
        ELSE /\ products' = UpdatedProducts(products, editingProduct.id, data)
             /\ sales' = [i \in DOMAIN sales |->
                  IF sales[i].product_id = editingProduct.id
                  THEN [sales[i] EXCEPT
                          !.total_revenue = data.selling_price * sales[i].quantity_sold,
                          !.total_cost = data.purchase_price * sales[i].quantity_sold,
                          !.total_profit = (data.selling_price - data.purchase_price)
                                             * sales[i].quantity_sold]
                  ELSE sales[i]]
             /\ ProductManagement_saved(c, products')
  /\ Answer(error)
  /\ UNCHANGED <<rev, cap, customers, nextId>>

\* handleSubmit of the product dialog when it edits a product.
ProductManagement_handleSubmit(c, purchase_price, selling_price, initial_stock, error) ==
  /\ ui[c].page = "ProductManagement"
  /\ ui[c].editingProduct # <<>>
  /\ LET editingProduct == ui[c].editingProduct[1]
         data == productData(editingProduct, purchase_price, selling_price,
                             initial_stock)
     IN IF error
        THEN /\ Show(c, Toast("ProductSaveFailed"))
             /\ UNCHANGED <<products, ui>>
        ELSE /\ products' = UpdatedProducts(products, editingProduct.id, data)
             /\ ProductManagement_saved(c, products')
  /\ Answer(error)
  /\ UNCHANGED <<rev, cap, sales, customers, nextId>>

\* The Batal button of the dialog: resetForm().
ProductManagement_cancelEdit(c) ==
  /\ ui[c].page = "ProductManagement"
  /\ ui[c].editingProduct # <<>>
  /\ ui' = [ui EXCEPT ![c].editingProduct = <<>>]
  /\ Quiet
  /\ UNCHANGED <<rev, cap, products, sales, customers, nextId, faults>>

\* handleDelete(productId) of the product page: delete().eq('id', productId)
\* and then fetchProducts().  The sales table has no reference to the
\* products table on record, so the rows of the product's sales stay.
ProductManagement_handleDelete(c, productId, error) ==
  /\ ui[c].page = "ProductManagement"
  /\ productId \in DOMAIN ui[c].products
  /\ Answer(error)
  /\ IF error
     THEN /\ Show(c, Toast("ProductDeleteFailed"))
          /\ UNCHANGED <<products, ui>>
     ELSE /\ products' = [p \in DOMAIN products \ {productId} |-> products[p]]
          /\ ui' = [ui EXCEPT ![c].products = products']
          /\ Show(c, Toast("ProductDeleted"))
  /\ UNCHANGED <<rev, cap, sales, customers, nextId>>

\* The steps of the product page, for a client that edits the given products
\* and types the given prices and initial stocks.
ProductManagementNext(c, selectable, prices, stocks, errors) ==
  \/ MountProductManagement(c)
  \/ LeaveProductManagement(c)
  \/ \E id \in selectable : ProductManagement_handleEdit(c, id)
  \/ ProductManagement_cancelEdit(c)
  \/ \E purchase_price \in prices, selling_price \in prices,
        initial_stock \in stocks, error \in errors :
       ProductManagement_handleSubmit(c, purchase_price, selling_price,
                                      initial_stock, error)

(***************************************************************************)
(* SalesAnalysis: best sellers and most profitable products of a window.   *)
(***************************************************************************)
\* Instants are counted in units of which a day has Day; the store stamps a
\* sale with the instant of its insert (sale_timestamp |-> id), so the clock
\* reads the last stamp handed out.  The browser's time zone is TzOffset
\* units ahead of UTC and a month has DaysPerMonth days.
Month == DaysPerMonth * Day

\* new Date().
Date_now == nextId

\* now.getFullYear() and now.getMonth(), as one count of months, and
\* now.getDate(), the day of the month from 1, both in local time.
getMonth(date) == (date + TzOffset) \div Month

getDate(date) == ((date + TzOffset) % Month) \div Day + 1

getTime(date) == date

\* new Date(year, month, day): local midnight of that day.
NewDate(month, day) == month * Month + (day - 1) * Day - TzOffset

\* 7 * 24 * 60 * 60 * 1000.
SevenDays == 7 * Day

\* startDate.toISOString(): the UTC date and time of day of the instant, and
\* the instant the store reads from that text.
toISOString(date) == [date |-> date \div Day, time |-> date % Day]

timestamptz(iso) == iso.date * Day + iso.time

TimeFilters == {"today", "7days", "month", "all"}

\* getDateRange: the start of the window, or nothing (null) for 'all'.
getDateRange(timeFilter, now) ==
  CASE timeFilter = "today" -> <<NewDate(getMonth(now), getDate(now))>>
    [] timeFilter = "7days" -> <<getTime(now) - SevenDays>>
    [] timeFilter = "month" -> <<NewDate(getMonth(now), 1)>>
    [] OTHER -> <<>>

\* The query of fetchSalesAnalysis: the sales whose product exists
\* (products!inner), from startDate on (.gte) when there is a startDate.
SalesAnalysis_query(salesTable, productsTable, startDate) ==
  SelectSeq(salesTable,
            LAMBDA sale :
              /\ sale.product_id \in DOMAIN productsTable
              /\ startDate # <<>> =>
                   sale.sale_timestamp >= timestamptz(toISOString(startDate[1])))

\* The forEach over the rows: one entry per product, in the order of the
\* product's first row, adding up quantity_sold and total_profit.
RECURSIVE productMap(_)
productMap(data) ==
  IF data = <<>> THEN <<>>
  ELSE LET sale == data[Len(data)]
           map == productMap(SubSeq(data, 1, Len(data) - 1))
           has == {i \in DOMAIN map : map[i].product_id = sale.product_id}
       IN IF has # {}
          THEN [i \in DOMAIN map |->
                  IF i \in has
                  THEN [map[i] EXCEPT !.total_quantity = @ + sale.quantity_sold,
                                      !.total_profit = @ + sale.total_profit]
                  ELSE map[i]]
          ELSE Append(map, [product_id |-> sale.product_id,
                            total_quantity |-> sale.quantity_sold,
                            total_profit |-> sale.total_profit])

\* [...productData].sort((a, b) => b[key] - a[key]): a stable sort, largest
\* first.
RECURSIVE sortDescending(_, _)
sortDescending(entries, key) ==
  IF entries = <<>> THEN <<>>
  ELSE LET last == entries[Len(entries)]
           sorted == sortDescending(SubSeq(entries, 1, Len(entries) - 1), key)
           ahead == {i \in DOMAIN sorted : sorted[i][key] >= last[key]}
       IN SubSeq(sorted, 1, Cardinality(ahead))
            \o <<last>>
            \o SubSeq(sorted, Cardinality(ahead) + 1, Len(sorted))

\* The state of the analysis page: the filter, the two lists, the loading
\* flag and the queries that are awaited.
AnalysisView ==
  [page |-> "SalesAnalysis", timeFilter |-> "today", bestSellers |-> <<>>,
   mostProfitable |-> <<>>, loading |-> TRUE, queries |-> {}] @@ NoView

\* fetchSalesAnalysis up to its await: setLoading(true), getDateRange() and
\* the query sent.  The instant of the call is kept with the query.
SalesAnalysis_fetchSalesAnalysis(view, timeFilter) ==
  [view EXCEPT !.timeFilter = timeFilter,
               !.loading = TRUE,
               !.queries = @ \cup {[timeFilter |-> timeFilter, now |-> Date_now,
                                    startDate |-> getDateRange(timeFilter, Date_now)]}]

\* Mounting the page: useEffect runs fetchSalesAnalysis() for 'today'.
MountSalesAnalysis(c) ==
  /\ ui[c].page = "none"
  /\ ui' = [ui EXCEPT ![c] = SalesAnalysis_fetchSalesAnalysis(AnalysisView, "today")]
  /\ Quiet
  /\ UNCHANGED <<rev, cap, products, sales, customers, nextId, faults>>

LeaveSalesAnalysis(c) ==
  /\ ui[c].page = "SalesAnalysis"
  /\ ui' = [ui EXCEPT ![c] = NoView]
  /\ Quiet
  /\ UNCHANGED <<rev, cap, products, sales, customers, nextId, faults>>

\* onValueChange={setTimeFilter}: the effect on [timeFilter] fetches again,
\* also while an earlier query is awaited.
SalesAnalysis_setTimeFilter(c, timeFilter) ==
  /\ ui[c].page = "SalesAnalysis"
  /\ timeFilter # ui[c].timeFilter
  /\ Cardinality(ui[c].queries) < MaxQueries
  /\ ui' = [ui EXCEPT ![c] = SalesAnalysis_fetchSalesAnalysis(ui[c], timeFilter)]
  /\ Quiet
  /\ UNCHANGED <<rev, cap, products, sales, customers, nextId, faults>>

\* The lists that fetchSalesAnalysis sets from the rows of its query.
SalesAnalysis_lists(view, data) ==
  [view EXCEPT !.bestSellers = sortDescending(productMap(data), "total_quantity"),
               !.mostProfitable = sortDescending(productMap(data), "total_profit")]

\* The query answers: with an error the catch block only logs it; in both
\* cases finally sets loading to false.
SalesAnalysis_fetched(c, query, error) ==
  /\ ui[c].page = "SalesAnalysis"
  /\ query \in ui[c].queries
  /\ Answer(error)
  /\ LET data == SalesAnalysis_query(sales, products, query.startDate)
         view == IF error THEN ui[c] ELSE SalesAnalysis_lists(ui[c], data)
     IN ui' = [ui EXCEPT ![c] = [view EXCEPT !.loading = FALSE,
                                              !.queries = @ \ {query}]]
  /\ Quiet
  /\ UNCHANGED <<rev, cap, products, sales, customers, nextId>>

\* The steps of the analysis page.
SalesAnalysisNext(c, errors) ==
  \/ MountSalesAnalysis(c)
  \/ LeaveSalesAnalysis(c)
  \/ \E timeFilter \in TimeFilters : SalesAnalysis_setTimeFilter(c, timeFilter)
  \/ /\ ui[c].page = "SalesAnalysis"
     /\ \E query \in ui[c].queries, error \in errors : SalesAnalysis_fetched(c, query, error)

(***************************************************************************)
(* StockUpdate: adding to, subtracting from and resetting a stock.         *)
(***************************************************************************)
UpdateTypes == {"add", "subtract", "reset"}

\* The state of the stock page: the list, the dialog, and the row and the
\* kind of update the dialog was opened with (selectedProduct is null at
\* first).
StockView ==
  [page |-> "StockUpdate", isDialogOpen |-> FALSE, selectedProduct |-> <<>>,
   updateType |-> "add"] @@ NoView

\* useEffect on mount: fetchProducts() and setupRealtimeSubscriptions().
MountStockUpdate(c) ==
  /\ ui[c].page = "none"
  /\ ui' = [ui EXCEPT ![c] = [StockView EXCEPT !.products = products]]
  /\ Quiet
  /\ UNCHANGED <<rev, cap, products, sales, customers, nextId, faults>>

LeaveStockUpdate(c) ==
  /\ ui[c].page = "StockUpdate"
  /\ ui' = [ui EXCEPT ![c] = NoView]
  /\ Quiet
  /\ UNCHANGED <<rev, cap, products, sales, customers, nextId, faults>>

\* The callback of the subscription on UPDATE of the products table: the row
\* of the list takes the stock of the payload.  selectedProduct is not
\* touched.
StockUpdate_onProductUpdate(c, id) ==
  /\ ui[c].page = "StockUpdate"
  /\ id \in DOMAIN ui[c].products
  /\ id \in DOMAIN products
  /\ ui[c].products[id].current_stock # products[id].current_stock
  /\ ui' = [ui EXCEPT ![c].products[id].current_stock = products[id].current_stock]
  /\ Quiet
  /\ UNCHANGED <<rev, cap, products, sales, customers, nextId, faults>>

\* handleStockUpdate(product, type): the dialog opens on a row of the list.
\* store_stock is not a field of the code: it records the stock the store
\* holds when the dialog opens.
StockUpdate_handleStockUpdate(c, id, type) ==
  /\ ui[c].page = "StockUpdate"
  /\ ui[c].pc = "idle"
  /\ ~ui[c].isDialogOpen
  /\ id \in DOMAIN ui[c].products
  /\ ui' = [ui EXCEPT ![c].selectedProduct = <<[id |-> id, row |-> ui[c].products[id],
                                                store_stock |-> StoreStock(id)]>>,
                      ![c].updateType = type,
                      ![c].isDialogOpen = TRUE]
  /\ Quiet
  /\ UNCHANGED <<rev, cap, products, sales, customers, nextId, faults>>

\* The Batal button: setIsDialogOpen(false).
StockUpdate_cancel(c) ==
  /\ ui[c].page = "StockUpdate"
  /\ ui[c].pc = "idle"
  /\ ui[c].isDialogOpen
  /\ ui' = [ui EXCEPT ![c].isDialogOpen = FALSE]
  /\ Quiet
  /\ UNCHANGED <<rev, cap, products, sales, customers, nextId, faults>>

\* The switch of handleSubmit: the stock to write, from the stock of the row
\* the dialog was opened on.
StockUpdate_newStock(selectedProduct, updateType, qty) ==
  CASE updateType = "add" -> selectedProduct.row.current_stock + qty
    [] updateType = "subtract" ->
         IF selectedProduct.row.current_stock - qty > 0
         THEN selectedProduct.row.current_stock - qty
         ELSE 0
    [] OTHER -> qty

\* handleSubmit of the dialog up to its await.  The model stops at stocks
\* beyond MaxAdjusted in either direction.  store_stock records the stock
\* the store holds when the dialog is submitted.
StockUpdate_handleSubmit(c, quantity) ==
  /\ ui[c].page = "StockUpdate"
  /\ ui[c].pc = "idle"
  /\ ui[c].isDialogOpen
  /\ ui[c].selectedProduct # <<>>
  /\ LET selectedProduct == ui[c].selectedProduct[1]
         qty == parseInt(quantity)
     IN /\ StockUpdate_newStock(selectedProduct, ui[c].updateType, qty)
             \in (0 - MaxAdjusted)..MaxAdjusted
        /\ ui' = [ui EXCEPT ![c].pc = "adjustStock",
                            ![c].call = [NoCall EXCEPT
                               !.product_id = selectedProduct.id,
                               !.quantity = qty,
                               !.stock = StockUpdate_newStock(selectedProduct,
                                                              ui[c].updateType, qty),
                               !.store_stock = StoreStock(selectedProduct.id)]]
  /\ Quiet
  /\ UNCHANGED <<rev, cap, products, sales, customers, nextId, faults>>

\* await supabase.from('Produk').update({stokSaatIni: newStock}).eq('id', ...)
\* and what follows it: the toast, and on success the dialog closes.
StockUpdate_update(c, error) ==
  /\ ui[c].page = "StockUpdate"
  /\ ui[c].pc = "adjustStock"
  /\ Answer(error)
  /\ IF error
     THEN /\ ui' = [ui EXCEPT ![c].pc = "idle", ![c].call = NoCall]
          /\ Show(c, Toast("StockUpdateFailed"))
          /\ UNCHANGED products
     ELSE /\ products' = WithStock(products, ui[c].call.product_id, ui[c].call.stock)
          /\ ui' = [ui EXCEPT ![c].pc = "idle", ![c].call = NoCall,
                              ![c].isDialogOpen = FALSE,
                              ![c].selectedProduct = <<>>]
          /\ Show(c, [Toast("StockUpdated") EXCEPT !.product_id = ui[c].call.product_id])
  /\ UNCHANGED <<rev, cap, sales, customers, nextId>>

\* The steps of the stock page, for a client that adjusts the given
\* products and types the given quantities.
StockUpdateNext(c, selectable, quantities, errors) ==
  \/ MountStockUpdate(c)
  \/ LeaveStockUpdate(c)
  \/ \E id \in selectable : StockUpdate_onProductUpdate(c, id)
  \/ \E id \in selectable, type \in UpdateTypes : StockUpdate_handleStockUpdate(c, id, type)
  \/ StockUpdate_cancel(c)
  \/ \E quantity \in quantities : StockUpdate_handleSubmit(c, quantity)
  \/ \E error \in errors : StockUpdate_update(c, error)

(***************************************************************************)
(* Specifications.                                                         *)
(***************************************************************************)
\* Two terminals record cash and credit sales of one product, under any of
\* the three revisions of the modal.
Next ==
  \E c \in Clients :
    \/ SalesModalForm(c, {"P1", ""}, QuantityInputs, PaymentStatuses)
    \/ SalesModalWrites(c, BOOLEAN)
    \/ \E error \in BOOLEAN : SalesModal_createNewCustomer(c, error)
    \/ \E error \in BOOLEAN : SalesModal_rpc(c, error)

Spec == Init /\ [][Next]_vars

\* One terminal records cash sales of one product while the other edits and
\* deletes them.
InitManage == Seeded({"inlineCustomer"}, {"K1"}, MaxStock, MaxSales)

NextManage ==
  \/ SalesModalForm("c1", {"P1"}, {"1", "2"}, {"Lunas"})
  \/ SalesModalWrites("c1", {FALSE})
  \/ SalesManagementNext("c2", {"P1"}, QuantityInputs \ {""}, BOOLEAN)

SpecManage == InitManage /\ [][NextManage]_vars

\* One terminal records cash and credit sales of two products to two
\* customers while the other follows the debts and marks them as paid.
InitDebt == Seeded({"rpc"}, CustomerIds, MaxDebtStock, MaxDebtSales)

NextDebt ==
  \/ SalesModalForm("c1", ProductIds, {"1"}, PaymentStatuses)
  \/ SalesModal_rpc("c1", FALSE)
  \/ DebtManagementNext("c2", BOOLEAN)

SpecDebt == InitDebt /\ [][NextDebt]_vars

\* One terminal records cash sales of one product while the other edits the
\* product's prices.
InitPrice == Seeded({"twoWrite"}, {"K1"}, MaxStock, MaxSales)

NextPrice ==
  \/ SalesModalForm("c1", {"P1"}, {"1"}, {"Lunas"})
  \/ SalesModalWrites("c1", {FALSE})
  \/ ProductManagementNext("c2", {"P1"}, {ToString(MaxPrice - 1), ToString(MaxPrice)},
                           {ToString(MaxStock)}, BOOLEAN)

SpecPrice == InitPrice /\ [][NextPrice]_vars


\* The analysis page next to a terminal that records cash sales.  The store
\* starts with sales on record around the start of the day, of the month and
\* of the last seven days, and the clock starts on the fourth day of a month.
ThisMonth == NewDate(2, 1)

Today == NewDate(2, 4)

SaleInstants ==
  {Today - SevenDays, ThisMonth - 1, ThisMonth, Today - 1, Today}

ClockStarts == {Today, Today + 1}

\* The row of a cash sale of `quantity` units of a product, inserted at the
\* given instant.
RecordedSale(product_id, quantity, instant) ==
  LET purchase_price == 1
      selling_price == IF product_id = "P1" THEN 2 ELSE 3
  IN SaleRow(instant,
             [NoCall EXCEPT !.product_id = product_id,
                            !.quantity = quantity,
                            !.payment_status = "Lunas",
                            !.customer_id = NullCustomer,
                            !.total_revenue = selling_price * quantity,
                            !.total_cost = purchase_price * quantity,
                            !.total_profit = (selling_price - purchase_price) * quantity])

RecordedSales ==
  {rows \in UNION {[1..n -> [product_id : ProductIds, quantity : 1..MaxQty, instant : SaleInstants]] : n \in 0..MaxAnalysisSales} :
     \A i \in DOMAIN rows : \A j \in DOMAIN rows : i < j => rows[i].instant < rows[j].instant}

InitAnalysis ==
  /\ rev = "twoWrite"
  /\ products = [p \in ProductIds |->
                   [purchase_price |-> 1,
                    selling_price |-> IF p = "P1" THEN 2 ELSE 3,
                    initial_stock |-> MaxStock,
                    current_stock |-> MaxStock]]
  /\ \E rows \in RecordedSales :
       sales = [i \in DOMAIN rows |->
                  RecordedSale(rows[i].product_id, rows[i].quantity, rows[i].instant)]
  /\ customers = {"K1"}
  /\ nextId \in ClockStarts
  /\ cap = nextId + MaxAnalysisInserts
  /\ ui = [c \in Clients |-> NoView]
  /\ toast = NoToast
  /\ faults = 0

NextAnalysis ==
  \/ SalesModalForm("c1", ProductIds, {"1"}, {"Lunas"})
  \/ SalesModalWrites("c1", {FALSE})
  \/ SalesAnalysisNext("c2", BOOLEAN)

SpecAnalysis == InitAnalysis /\ [][NextAnalysis]_vars


\* The stock page next to a terminal that records cash sales of the product
\* whose stock is adjusted.
AdjustInputs == {ToString(0 - 1), "1", ToString(MaxQty)}

InitStock == Seeded({"twoWrite"}, {"K1"}, MaxDebtStock, MaxSales)

NextStock ==
  \/ SalesModalForm("c1", {"P1"}, {"1"}, {"Lunas"})
  \/ SalesModalWrites("c1", {FALSE})
  \/ StockUpdateNext("c2", {"P1"}, AdjustInputs, BOOLEAN)

SpecStock == InitStock /\ [][NextStock]_vars


\* The product page, where a product is edited with its initial stock as it
\* is or raised by one and where it is deleted, next to a terminal that
\* records cash sales of that product.
InitProduct == Seeded({"twoWrite"}, {"K1"}, MaxStock, MaxSales)

NextProduct ==
  \/ SalesModalForm("c1", {"P1"}, {"1"}, {"Lunas"})
  \/ SalesModalWrites("c1", {FALSE})
  \/ ProductManagementNext("c2", {"P1"}, {ToString(MaxPrice)}, {ToString(MaxStock), ToString(MaxStock + 1)}, BOOLEAN)
  \/ \E error \in BOOLEAN : ProductManagement_handleDelete("c2", "P1", error)

SpecProduct == InitProduct /\ [][NextProduct]_vars


\* A terminal that records cash and credit sales next to a second client
\* that moves between the sales page, where it edits a sale's quantity and
\* product and deletes sales, the product page, where it changes the prices
\* of P1, and the debt page, where it marks debts as paid.
InitEdit == Seeded({"twoWrite"}, {"K1"}, MaxDebtStock, MaxEditSales)

NextEdit ==
  \/ SalesModalForm("c1", {"P1"}, {"1"}, PaymentStatuses)
  \/ SalesModalWrites("c1", {FALSE})
  \/ SalesManagementNext("c2", ProductIds, {"1", "2"}, {FALSE})
  \/ ProductManagementNext("c2", {"P1"}, {ToString(MaxPrice)}, {ToString(MaxDebtStock)}, {FALSE})
  \/ DebtManagementNext("c2", {FALSE})

SpecEdit == InitEdit /\ [][NextEdit]_vars

\* One terminal records a cash sale through the stored procedure; both
\* terminals then open the sales page and delete sales from their lists.
InitDelete == Seeded({"rpc"}, {"K1"}, MaxDebtStock, MaxEditSales)

SalesManagementDeletes(c, errors) ==
  \/ MountSalesManagement(c)
  \/ LeaveSalesManagement(c)
  \/ \E i \in 1..cap : SalesManagement_handleDelete(c, i)
  \/ \E error \in errors : SalesManagement_deleteSale(c, error)
  \/ \E error \in errors : SalesManagement_fetchStock(c, error)
  \/ \E error \in errors : SalesManagement_restoreStock(c, error)

NextDelete ==
  \/ SalesModalForm("c1", {"P1"}, {"1"}, {"Lunas"})
  \/ SalesModal_rpc("c1", FALSE)
  \/ \E c \in Clients : SalesManagementDeletes(c, BOOLEAN)

SpecDelete == InitDelete /\ [][NextDelete]_vars

(***************************************************************************)
(* Properties of recordSale (SalesModal.handleSubmit).                     *)
(***************************************************************************)
\* The step in which client c's handleSubmit reports success.
ReportsSuccess(c) ==
  /\ ui[c].pc \in {"updateStock", "rpc"}
  /\ toast'.kind = "SaleSaved"
  /\ toast'.client = c

\* The stock the store held immediately before the call's writes.
StockBeforeWrites(c) ==
  IF ui[c].pc = "rpc"
  THEN products[ui[c].call.product_id].current_stock
  ELSE ui[c].call.store_stock

\* A row of the given table that records a sale of quantity q of product p.
HoldsSale(salesTable, p, q) ==
  \E i \in DOMAIN salesTable :
    salesTable[i].product_id = p /\ salesTable[i].quantity_sold = q

\* C1: when handleSubmit reports success for product P and quantity q, the
\* store holds the sale of q of P and a stock for P that is lower by exactly
\* q than the stock the store held immediately before the call's writes.
C1_SuccessHoldsSaleAndDecrement ==
  [][\A c \in Clients :
       ReportsSuccess(c) =>
         LET call == ui[c].call
         IN /\ HoldsSale(sales', call.product_id, call.quantity)
            /\ products'[call.product_id].current_stock
                 = StockBeforeWrites(c) - call.quantity]_vars

\* C2: when the stock update of a recordSale fails after the sale row was
\* inserted, the store does not hold that sale together with the stock the
\* product had before the insert (both changes are present, or neither).
C2_FailureBetweenWritesLeavesBothOrNeither ==
  [][\A c \in Clients :
       (ui[c].pc = "updateStock" /\ toast'.kind = "SaveFailed" /\ toast'.client = c) =>
         LET call == ui[c].call
         IN ~ /\ \E i \in DOMAIN sales' : sales'[i].id = call.sale_id
              /\ products'[call.product_id].current_stock = call.store_stock]_vars

\* No call is in flight and no store call has failed, so every sale row is
\* the sale of a handleSubmit that reported success.
AllCallsSucceeded ==
  /\ faults = 0
  /\ \A c \in Clients : ui[c].pc = "idle"

\* C3: when two recordSale calls on one product have both succeeded with
\* quantities a and b, the stock before the first was at least a + b and the
\* stock is now lower by exactly a + b.
C3_NoLostStockUpdate ==
  (AllCallsSucceeded /\ Len(sales) = 2 /\ sales[1].product_id = sales[2].product_id) =>
    LET p == sales[1].product_id
        a == sales[1].quantity_sold
        b == sales[2].quantity_sold
    IN /\ products[p].initial_stock >= a + b
       /\ products[p].current_stock = products[p].initial_stock - (a + b)

\* C4: the current stock of every product is at least 0 in every state that
\* recordSale, editSale and deleteSale calls can reach.
C4_StockNeverNegative ==
  \A p \in DOMAIN products : products[p].current_stock >= 0

\* The toasts with which handleSubmit turns a form down before any write.
RejectionKinds ==
  {"MissingInput", "MissingCustomer", "ProductNotFound", "InvalidQuantity",
   "InsufficientStock"}

\* The step in which client c's handleSubmit is rejected by a validation.
Rejected(c) ==
  /\ ui[c].page = "SalesModal"
  /\ ui[c].pc = "idle"
  /\ toast'.client = c
  /\ toast'.kind \in RejectionKinds

\* C5: a recordSale that a validation step rejects leaves the sale records
\* and every product's stock exactly as they were before the call.
C5_RejectionChangesNothing ==
  [][\A c \in Clients : Rejected(c) => sales' = sales /\ products' = products]_vars

\* C5, witness: an insufficient-stock rejection after a sale was recorded,
\* with the sale and the decremented stock still in the store.
C5_Witness ==
  /\ toast.kind = "InsufficientStock"
  /\ Len(sales) = 1
  /\ products[sales[1].product_id].current_stock
       = products[sales[1].product_id].initial_stock - sales[1].quantity_sold
  /\ sales[1].quantity_sold > 0

\* C6: a recordSale rejected for insufficient stock reports the stock the
\* store holds for the product, and leaves that stock unchanged.
C6_InsufficientStockReportsActualStock ==
  [][\A c \in Clients :
       (Rejected(c) /\ toast'.kind = "InsufficientStock") =>
         /\ toast'.remaining = products[toast'.product_id].current_stock
         /\ products' = products]_vars

(***************************************************************************)
(* Properties of editSale and deleteSale (SalesManagement).                *)
(***************************************************************************)
\* C7: a successful edit of a sale's quantity from oldQty to newQty on the
\* same product changes the product's stock by exactly -(newQty - oldQty).
C7_EditAppliesQuantityDelta ==
  [][\A c \in Clients :
       (ui[c].pc = "updateSaleStock" /\ toast'.kind = "EditSaved" /\ toast'.client = c) =>
         LET call == ui[c].call
         IN products'[call.product_id].current_stock
              = call.store_stock - call.quantityDiff]_vars

\* The step in which client c's handleDelete ends, with or without an error.
DeleteEnds(c) ==
  /\ ui[c].pc \in {"deleteSale", "fetchStock", "restoreStock"}
  /\ ui'[c].pc = "idle"

\* C8: when a deleteSale ends, by success or by a failure at any of its
\* steps, the sale is absent if and only if its quantity has been added back
\* to the product's stock.
C8_DeleteIsAtomic ==
  [][\A c \in Clients :
       DeleteEnds(c) =>
         LET call == ui[c].call
             before == IF ui[c].pc = "deleteSale"
                       THEN products[call.product_id].current_stock
                       ELSE call.store_stock
             present == \E i \in DOMAIN sales' : sales'[i].id = call.sale_id
             stock == products'[call.product_id].current_stock
         IN /\ present => stock = before
            /\ ~present => stock = before + call.quantity]_vars

(***************************************************************************)
(* Properties of listDebtors (fetchCustomersWithDebt).                     *)
(***************************************************************************)
\* The rows of the sales table that are unpaid credit sales to customer k.
HutangSalesOf(k) ==
  {i \in DOMAIN sales : sales[i].customer_id = k /\ sales[i].payment_status = "Hutang"}

\* The sum of total_revenue over the given rows of the sales table.
RECURSIVE SumRevenue(_)
SumRevenue(indices) ==
  IF indices = {} THEN 0
  ELSE LET i == CHOOSE j \in indices : TRUE
       IN sales[i].total_revenue + SumRevenue(indices \ {i})

\* C9: whatever recordSale and markPaid calls came before, the list of
\* fetchCustomersWithDebt has one entry for each customer with an unpaid
\* credit sale and for no other, and the entry's total debt is the sum of
\* total_revenue over exactly that customer's Hutang sales.
C9_DebtIsSumOfHutangSales ==
  LET listed == fetchCustomersWithDebt(sales, customers)
  IN /\ \A i \in DOMAIN listed :
          /\ HutangSalesOf(listed[i].id) # {}
          /\ listed[i].total_debt = SumRevenue(HutangSalesOf(listed[i].id))
     /\ \A i, j \in DOMAIN listed : listed[i].id = listed[j].id => i = j
     /\ \A k \in customers :
          HutangSalesOf(k) # {} => \E i \in DOMAIN listed : listed[i].id = k

\* C9, witness: a customer with an unpaid sale, a paid one and another unpaid
\* one of a different amount, and a debt page that lists the customer with
\* the sum of the two unpaid amounts.
C9_Witness ==
  /\ Len(sales) = 3
  /\ \A i \in 1..3 : sales[i].customer_id = "K1"
  /\ sales[1].payment_status = "Hutang"
  /\ sales[2].payment_status = "Lunas"
  /\ sales[3].payment_status = "Hutang"
  /\ sales[1].total_revenue # sales[3].total_revenue
  /\ \E c \in Clients :
       /\ ui[c].page = "DebtManagement"
       /\ ui[c].debtors = <<[id |-> "K1",
                             total_debt |-> sales[1].total_revenue
                                              + sales[3].total_revenue]>>

(***************************************************************************)
(* Properties of the product dialog (ProductManagement.handleSubmit).      *)
(***************************************************************************)
\* The step changes a price of product p.
PriceChanged(p) ==
  \/ products'[p].selling_price # products[p].selling_price
  \/ products'[p].purchase_price # products[p].purchase_price

\* C10: a step that changes a product's selling price or purchase price
\* leaves the total revenue, total cost and total profit of every committed
\* sale as they were.
C10_PriceChangeLeavesSaleTotals ==
  [][(\E p \in DOMAIN products : PriceChanged(p)) =>
       /\ DOMAIN sales' = DOMAIN sales
       /\ \A i \in DOMAIN sales :
            /\ sales'[i].total_revenue = sales[i].total_revenue
            /\ sales'[i].total_cost = sales[i].total_cost
            /\ sales'[i].total_profit = sales[i].total_profit]_vars

\* C10, witness: the product dialog has saved new prices, and the store holds
\* a sale whose totals are still those of the prices it was sold at.
C10_Witness ==
  /\ toast.kind = "ProductSaved"
  /\ \E i \in DOMAIN sales :
       LET product == products[sales[i].product_id]
       IN /\ sales[i].total_revenue # product.selling_price * sales[i].quantity_sold
          /\ sales[i].total_cost # product.purchase_price * sales[i].quantity_sold
          /\ sales[i].total_revenue = 2 * sales[i].quantity_sold
          /\ sales[i].total_cost = sales[i].quantity_sold

(***************************************************************************)
(* Properties of markPaid (DebtManagement.markAsPaid).                     *)
(***************************************************************************)
\* The step in which client c's markAsPaid ends, with or without an error.
MarkAsPaidEnds(c) ==
  /\ toast'.client = c
  /\ toast'.kind \in {"MarkedPaid", "MarkPaidFailed"}

\* The sale ids of the rows client c's page lists under the open customer.
ListedDebts(c) ==
  {ui[c].debtTransactions[i].id : i \in DOMAIN ui[c].debtTransactions}

\* C11: a markAsPaid that goes through sets the payment status of one listed
\* sale to Lunas and changes nothing else: every product row, the sale's
\* quantity, revenue, cost, profit and customer reference, and every other
\* sale are as before.
C11_MarkPaidChangesStatusOnly ==
  [][\A c \in Clients :
       (MarkAsPaidEnds(c) /\ toast'.kind = "MarkedPaid") =>
         /\ products' = products
         /\ customers' = customers
         /\ DOMAIN sales' = DOMAIN sales
         /\ \E id \in ListedDebts(c) :
              \A j \in DOMAIN sales :
                IF sales[j].id = id
                THEN sales'[j] = [sales[j] EXCEPT !.payment_status = "Lunas"]
                ELSE sales'[j] = sales[j]]_vars

\* C11, witness: a credit sale has been marked as paid; it is Lunas and still
\* carries its customer and the totals of the product's prices.
C11_Witness ==
  /\ toast.kind = "MarkedPaid"
  /\ \E j \in DOMAIN sales :
       /\ sales[j].payment_status = "Lunas"
       /\ sales[j].customer_id \in customers
       /\ sales[j].quantity_sold = 1
       /\ sales[j].total_revenue = products[sales[j].product_id].selling_price
       /\ products[sales[j].product_id].current_stock
            < products[sales[j].product_id].initial_stock

\* Every sale the page of client c lists is already Lunas in the store, so
\* whichever row the client marks, the call repeats an earlier one.
AllListedArePaid(c) ==
  /\ ListedDebts(c) # {}
  /\ \A j \in DOMAIN sales :
       sales[j].id \in ListedDebts(c) => sales[j].payment_status = "Lunas"

\* C12: a markAsPaid on a sale that was already marked as paid does not end
\* in an error unless the store call itself fails, leaves the sale Lunas, and
\* leaves the store as it was after the first call.
C12_MarkPaidTwiceIsIdempotent ==
  [][\A c \in Clients :
       (MarkAsPaidEnds(c) /\ AllListedArePaid(c) /\ faults' = faults) =>
         /\ toast'.kind = "MarkedPaid"
         /\ sales' = sales
         /\ products' = products]_vars

\* C12, witness: the page still lists a sale that it has marked as paid (the
\* list is not fetched again), and marking it again leads back to this state.
C12_Witness ==
  /\ toast.kind = "MarkedPaid"
  /\ \E c \in Clients :
       /\ toast.client = c
       /\ ui[c].page = "DebtManagement"
       /\ Len(ui[c].debtTransactions) = 1
       /\ \A j \in DOMAIN sales :
            sales[j].id \in {ui[c].debtTransactions[1].id}
              => sales[j].payment_status = "Lunas"

(***************************************************************************)
(* Properties of the validations of recordSale.                            *)
(***************************************************************************)
\* The names a form of the deployed revision can hold for a new customer.
NewCustomerNames == IF rev = "inlineCustomer" THEN {"", "Baru"} ELSE {""}

\* Client c's sales modal is open and no call of it is in flight.
ModalIdle(c) == ui[c].page = "SalesModal" /\ ui[c].pc = "idle"

\* The first violated check in the order product exists, quantity > 0,
\* customer present for a Hutang sale, quantity <= current stock.
FirstViolatedCheck(view, selectedProduct, quantity, paymentStatus, selectedCustomer, newCustomerName) ==
  IF selectedProduct \notin DOMAIN view.products THEN "ProductNotFound"
  ELSE IF parseInt(quantity) <= 0 THEN "InvalidQuantity"
  ELSE IF paymentStatus = "Hutang" /\ selectedCustomer = "" /\ newCustomerName = ""
    THEN "MissingCustomer"
  ELSE IF parseInt(quantity) > view.products[selectedProduct].current_stock
    THEN "InsufficientStock"
  ELSE "ok"

\* C13: whatever a sales modal holds, a form with a product id and a quantity
\* in it that violates a validation check is rejected with the first violated
\* check in the order product exists, quantity > 0, customer present for a
\* Hutang sale, quantity <= current stock.
C13_FirstViolatedCheckWins ==
  \A c \in Clients :
    ModalIdle(c) =>
      \A selectedProduct \in ProductIds, quantity \in QuantityInputs \ {""},
         paymentStatus \in PaymentStatuses,
         selectedCustomer \in ui[c].customers \cup {""},
         newCustomerName \in NewCustomerNames :
        LET first == FirstViolatedCheck(ui[c], selectedProduct, quantity,
                        paymentStatus, selectedCustomer, newCustomerName)
        IN first # "ok" =>
             SalesModal_validate(ui[c], selectedProduct, quantity, paymentStatus,
                                 selectedCustomer, newCustomerName).kind = first

\* C14: a cash sale of a listed product with a quantity of zero or less is
\* rejected as InvalidQuantity, and every sale row that recordSale created
\* has a quantity sold greater than 0.
C14_NonPositiveQuantityRejected ==
  /\ \A i \in DOMAIN sales : sales[i].quantity_sold > 0
  /\ \A c \in Clients :
       ModalIdle(c) =>
         \A selectedProduct \in DOMAIN ui[c].products,
            quantity \in QuantityInputs \ {""} :
           parseInt(quantity) <= 0 =>
             SalesModal_validate(ui[c], selectedProduct, quantity, "Lunas",
                                 "", "").kind = "InvalidQuantity"

\* The step in which client c's handleSubmit passes its validations.
PassesValidation(c) ==
  /\ ModalIdle(c)
  /\ ui'[c].pc # "idle"

\* The step in which client c opens the sales modal.
OpensModal(c) == ui[c].page = "none" /\ ui'[c].page = "SalesModal"

\* C15: a sale that recordSale creates carries a customer reference if and
\* only if its payment status is Hutang: a Hutang form with neither a
\* selected customer nor a new customer's name is rejected as
\* MissingCustomer, and a Lunas sale gets a null customer whatever customer
\* the form has selected.
C15_CustomerIffHutang ==
  [][\A c \in Clients :
       /\ OpensModal(c) =>
            \A selectedProduct \in ProductIds, quantity \in QuantityInputs \ {""} :
              SalesModal_validate(ui'[c], selectedProduct, quantity, "Hutang",
                                  "", "").kind = "MissingCustomer"
       /\ PassesValidation(c) =>
            LET call == ui'[c].call
            IN /\ call.payment_status = "Hutang" =>
                    \/ call.customer_id \in ui[c].customers
                    \/ ui'[c].pc = "createCustomer"
               /\ \A selectedCustomer \in ui[c].customers \cup {""} :
                    SalesModal_handleSubmit(c, call.product_id, ToString(call.quantity),
                                            "Lunas", selectedCustomer, "")
                      => call.customer_id = NullCustomer
       /\ \A i \in DOMAIN sales' :
            i \notin DOMAIN sales =>
              IF sales'[i].payment_status = "Hutang"
              THEN sales'[i].customer_id \in customers'
              ELSE sales'[i].customer_id = NullCustomer]_vars

\* C15, witness: the store holds a credit sale with its customer and a cash
\* sale with a null customer.
C15_Witness ==
  /\ Len(sales) = 2
  /\ \E i, j \in DOMAIN sales :
       /\ sales[i].payment_status = "Hutang"
       /\ sales[i].customer_id \in customers
       /\ sales[j].payment_status = "Lunas"
       /\ sales[j].customer_id = NullCustomer

(***************************************************************************)
(* Properties of the validations and the writes of editSale.               *)
(***************************************************************************)
\* The step in which client c's edit dialog is submitted: it is rejected
\* with a toast, or it passes and reaches its first await.
EditSubmitted(c) ==
  /\ ui[c].page = "SalesManagement"
  /\ ui[c].pc = "idle"
  /\ ui[c].editingSale # <<>>
  /\ toast'.client = c \/ ui'[c].pc = "updateSale"

\* C16: an edit of a sale on its product is rejected as InsufficientStock
\* exactly when newQuantity - oldQuantity is greater than the stock the store
\* holds for the product, and a rejection changes neither the sale records
\* nor any product's stock.
C16_EditRejectedIffDeltaExceedsStock ==
  [][\A c \in Clients :
       EditSubmitted(c) =>
         \A quantity_sold \in QuantityInputs \ {""} :
           LET editingSale == ui[c].editingSale[1]
               product_id == editingSale.product_id
               quantityDelta == parseInt(quantity_sold) - editingSale.quantity_sold
           IN SalesManagement_handleSubmit(c, product_id, quantity_sold) =>
                /\ toast'.kind = "InsufficientStock"
                     <=> quantityDelta > StoreStock(product_id)
                /\ toast'.kind = "InsufficientStock" =>
                     sales' = sales /\ products' = products]_vars

\* The step in which client c's edit ends in the catch block.
EditFails(c) ==
  /\ ui[c].pc \in {"updateSale", "updateSaleStock"}
  /\ toast'.kind = "EditFailed"
  /\ toast'.client = c

\* C17: when an edit fails, at the update of the sale or at the update of
\* the stock after it, the store holds neither change: the sale has the
\* quantity and the totals it had before the edit, and the stock is as it
\* was before the edit's first write.
C17_EditIsAllOrNothing ==
  [][\A c \in Clients :
       EditFails(c) =>
         LET call == ui[c].call
             before == ui[c].editingSale[1]
             stock == IF ui[c].pc = "updateSale" THEN StoreStock(call.product_id)
                      ELSE call.store_stock
         IN /\ \A i \in DOMAIN sales' :
                 sales'[i].id = call.sale_id =>
                   /\ sales'[i].quantity_sold = before.quantity_sold
                   /\ sales'[i].total_revenue = before.total_revenue
                   /\ sales'[i].total_cost = before.total_cost
                   /\ sales'[i].total_profit = before.total_profit
            /\ products'[call.product_id].current_stock = stock]_vars

(***************************************************************************)
(* Properties of the analytics (SalesAnalysis.fetchSalesAnalysis).         *)
(***************************************************************************)
\* The queries of client c's analysis page that are answered without an
\* error in this step.
AnsweredQueries(c) ==
  IF ui[c].page = "SalesAnalysis" /\ ui'[c].page = "SalesAnalysis" /\ faults' = faults
  THEN ui[c].queries \ ui'[c].queries
  ELSE {}

\* Local midnight of the day of an instant, and the local start of its month.
LocalMidnight(now) ==
  CHOOSE m \in (now - Day + 1)..now : (m + TzOffset) % Day = 0

LocalMonthStart(now) ==
  CHOOSE m \in (now - Month + 1)..now : (m + TzOffset) % Month = 0

\* Whether an instant lies in the window of a filter for a call made at
\* `now`: from the start of the window on and before its end.  Today ends at
\* the next local midnight, ThisMonth at the start of the next month,
\* Last7Days right after the instant of the call; AllTime has no bounds.
InWindow(timeFilter, now, instant) ==
  CASE timeFilter = "today" ->
         LocalMidnight(now) <= instant /\ instant < LocalMidnight(now) + Day
    [] timeFilter = "7days" ->
         now - 7 * Day <= instant /\ instant < now + 1
    [] timeFilter = "month" ->
         LocalMonthStart(now) <= instant /\ instant < LocalMonthStart(now) + Month
    [] OTHER -> TRUE

\* The sales that the answer to a query aggregates.
Aggregated(query) == SalesAnalysis_query(sales, products, query.startDate)

IsAggregated(query, sale) == \E i \in DOMAIN Aggregated(query) : Aggregated(query)[i] = sale

\* C18: the Today window aggregates a sale stamped exactly at local midnight
\* of the current day and not a sale stamped one unit earlier, and for every
\* window a sale is aggregated only if its stamp is at or after the start of
\* the window and before its exclusive end.
C18_WindowIsStartInclusiveEndExclusive ==
  [][\A c \in Clients : \A query \in AnsweredQueries(c) :
       \A i \in DOMAIN sales :
         /\ IsAggregated(query, sales[i]) =>
              InWindow(query.timeFilter, query.now, sales[i].sale_timestamp)
         /\ query.timeFilter = "today" =>
              /\ sales[i].sale_timestamp = LocalMidnight(query.now) =>
                   IsAggregated(query, sales[i])
              /\ sales[i].sale_timestamp = LocalMidnight(query.now) - 1 =>
                   ~IsAggregated(query, sales[i])]_vars


\* The rows of the sales table that lie in the window of a query.
InWindowSales(query) ==
  {i \in DOMAIN sales : InWindow(query.timeFilter, query.now, sales[i].sale_timestamp)}

\* The sum of a field over the given rows of the sales table.
RECURSIVE SumOf(_, _)
SumOf(indices, field) ==
  IF indices = {} THEN 0
  ELSE LET i == CHOOSE j \in indices : TRUE
       IN sales[i][field] + SumOf(indices \ {i}, field)

\* A list has exactly one entry for each product with a sale in the window
\* of the query, with the sums of quantity and profit over those sales.
OneEntryPerProductInWindow(list, query) ==
  /\ \A i \in DOMAIN list : \A j \in DOMAIN list :
       list[i].product_id = list[j].product_id => i = j
  /\ {list[i].product_id : i \in DOMAIN list}
       = {sales[i].product_id : i \in InWindowSales(query)}
  /\ \A i \in DOMAIN list :
       LET rows == {j \in InWindowSales(query) : sales[j].product_id = list[i].product_id}
       IN /\ list[i].total_quantity = SumOf(rows, "quantity_sold")
          /\ list[i].total_profit = SumOf(rows, "total_profit")

NonIncreasing(list, key) ==
  \A i \in DOMAIN list : \A j \in DOMAIN list : i < j => list[i][key] >= list[j][key]

\* C19: the best sellers and the most profitable products that an answered
\* query sets each hold one entry per product with a sale in the window, with
\* the sum of the quantity sold and of the profit of that product's sales in
\* the window, the first list in non-increasing order of quantity and the
\* second in non-increasing order of profit.
C19_ListsSumInWindowSalesInOrder ==
  [][\A c \in Clients : \A query \in AnsweredQueries(c) :
       /\ OneEntryPerProductInWindow(ui'[c].bestSellers, query)
       /\ OneEntryPerProductInWindow(ui'[c].mostProfitable, query)
       /\ NonIncreasing(ui'[c].bestSellers, "total_quantity")
       /\ NonIncreasing(ui'[c].mostProfitable, "total_profit")]_vars

(***************************************************************************)
(* Properties of listDebtTransactions (fetchCustomerDebtTransactions).     *)
(***************************************************************************)
\* C20: for every customer the list of debt transactions holds exactly the
\* sales of that customer whose payment status is Hutang, each once and with
\* the sale's own figures, the newest first; it holds no Lunas sale and no
\* sale of another customer.
C20_DebtTransactionsAreCustomersHutangSales ==
  \A k \in CustomerIds :
    LET list == fetchCustomerDebtTransactions(sales, k)
    IN /\ \A i \in DOMAIN list :
            \E j \in DOMAIN sales :
              /\ sales[j].id = list[i].id
              /\ sales[j].customer_id = k
              /\ sales[j].payment_status = "Hutang"
              /\ sales[j].product_id = list[i].product_id
              /\ sales[j].quantity_sold = list[i].quantity_sold
              /\ sales[j].total_revenue = list[i].total_revenue
              /\ sales[j].sale_timestamp = list[i].sale_timestamp
       /\ \A j \in HutangSalesOf(k) : \E i \in DOMAIN list : list[i].id = sales[j].id
       /\ \A i \in DOMAIN list : \A j \in DOMAIN list :
            i < j => list[i].sale_timestamp > list[j].sale_timestamp

\* A customer's list with two transactions is on screen, the newer one
\* first, while the store also holds a sale that is not on it.
C20_Witness ==
  \E c \in Clients :
    /\ ui[c].page = "DebtManagement"
    /\ ui[c].expandedCustomer = "K1"
    /\ ui[c].debtTransactions = fetchCustomerDebtTransactions(sales, "K1")
    /\ Len(ui[c].debtTransactions) = 2
    /\ ui[c].debtTransactions[1].sale_timestamp > ui[c].debtTransactions[2].sale_timestamp
    /\ \E j \in DOMAIN sales :
         sales[j].customer_id # "K1" \/ sales[j].payment_status = "Lunas"

(***************************************************************************)
(* Properties of the manual stock adjustments (StockUpdate.handleSubmit).  *)
(***************************************************************************)
\* The step in which client c submits the stock dialog.
AdjustSubmitted(c) ==
  /\ ui[c].page = "StockUpdate"
  /\ ui[c].pc = "idle"
  /\ ui[c].isDialogOpen
  /\ ui'[c].page = "StockUpdate"
  /\ ui'[c].pc = "adjustStock" \/ toast'.client = c

\* The step in which client c's update of the stock goes through.
AdjustWritten(c) ==
  /\ ui[c].page = "StockUpdate"
  /\ ui[c].pc = "adjustStock"
  /\ toast'.kind = "StockUpdated"
  /\ toast'.client = c

\* C21: a manual adjustment whose result would be negative is rejected and
\* leaves the stock as it is: a subtraction of more than the current stock
\* ends with InsufficientStock, a reset to a negative value ends with
\* InvalidQuantity, neither goes on to write, and the stock is not negative
\* after an add, a subtract or a reset.
C21_NegativeAdjustmentRejected ==
  [][\A c \in Clients :
       /\ AdjustSubmitted(c) =>
            \A quantity \in AdjustInputs :
              StockUpdate_handleSubmit(c, quantity) =>
                LET id == ui[c].selectedProduct[1].id
                IN /\ ui[c].updateType = "subtract" /\ parseInt(quantity) > StoreStock(id)
                        => toast'.kind = "InsufficientStock" /\ ui'[c].pc = "idle"
                   /\ ui[c].updateType = "reset" /\ parseInt(quantity) < 0
                        => toast'.kind = "InvalidQuantity" /\ ui'[c].pc = "idle"
       /\ AdjustWritten(c) =>
            \A id \in DOMAIN products' : products'[id].current_stock >= 0]_vars

(***************************************************************************)
(* Properties of the product records.                                      *)
(***************************************************************************)
\* C22: the initial stock of a product has in every later state the value it
\* was created with: no step of a product edit, a sale or a stock adjustment
\* changes it.
C22_InitialStockNeverChanges ==
  [][\A p \in DOMAIN products \cap DOMAIN products' :
       products'[p].initial_stock = products[p].initial_stock]_vars


\* C23: every sale record references a product that the product store holds;
\* a recorded sale followed by the deletion of its product leaves no sale
\* whose product is missing.
C23_SaleReferencesExistingProduct ==
  \A i \in DOMAIN sales : sales[i].product_id \in DOMAIN products

(***************************************************************************)
(* Properties of the sale records.                                         *)
(***************************************************************************)
\* The totals of a sale row are those of the given product row for the
\* quantity of the sale.
TotalsFollow(row, product) ==
  /\ row.total_revenue = product.selling_price * row.quantity_sold
  /\ row.total_cost = product.purchase_price * row.quantity_sold
  /\ row.total_profit = row.total_revenue - row.total_cost

\* The sale with the given id is written in this step: it is new, or its
\* product, quantity or totals change.
SaleWritten(id) ==
  \E j \in DOMAIN sales' :
    /\ sales'[j].id = id
    /\ \A i \in DOMAIN sales :
         sales[i].id = id =>
           \/ sales'[j].product_id # sales[i].product_id
           \/ sales'[j].quantity_sold # sales[i].quantity_sold
           \/ sales'[j].total_revenue # sales[i].total_revenue
           \/ sales'[j].total_cost # sales[i].total_cost
           \/ sales'[j].total_profit # sales[i].total_profit

\* C24: a sale record is written only by the insert of a recordSale and by
\* the update of an editSale, and the row written has total_revenue =
\* selling_price * quantity and total_cost = purchase_price * quantity for
\* the prices of its product as that operation read them, and total_profit
\* = total_revenue - total_cost.
C24_TotalsFollowPricesRead ==
  [][\A j \in DOMAIN sales' :
       SaleWritten(sales'[j].id) =>
         \E c \in Clients :
           /\ \/ ui[c].pc = "insertSale" /\ j = Len(sales) + 1
              \/ ui[c].pc = "updateSale" /\ sales'[j].id = ui[c].call.sale_id
           /\ sales'[j].product_id \in DOMAIN ui[c].products
           /\ TotalsFollow(sales'[j], ui[c].products[sales'[j].product_id])]_vars

\* C24, witness: a sale recorded at the prices of P1 was rewritten by an edit
\* that moved it to P2 with quantity 2, and carries the totals of P2.
C24_Witness ==
  /\ toast.kind = "EditSaved"
  /\ \E i \in DOMAIN sales :
       /\ sales[i].product_id = "P2"
       /\ sales[i].quantity_sold = 2
       /\ TotalsFollow(sales[i], products["P2"])
       /\ ~TotalsFollow(sales[i], products["P1"])


\* C25: the payment status of a sale only moves from Hutang to Lunas: a sale
\* that is Lunas is Lunas after every step, and no step, of an edit or of
\* any other operation, changes the customer of a sale or its status in any
\* other way.
C25_StatusOnlyMovesToLunas ==
  [][\A i \in DOMAIN sales : \A j \in DOMAIN sales' :
       sales'[j].id = sales[i].id =>
         /\ sales'[j].customer_id = sales[i].customer_id
         /\ \/ sales'[j].payment_status = sales[i].payment_status
            \/ sales[i].payment_status = "Hutang" /\ sales'[j].payment_status = "Lunas"]_vars

\* C25, witness: a credit sale to K1 was marked as paid and then rewritten by
\* an edit: it is still Lunas and still K1's.
C25_Witness ==
  /\ toast.kind = "EditSaved"
  /\ \E i \in DOMAIN sales :
       /\ sales[i].payment_status = "Lunas"
       /\ sales[i].customer_id = "K1"
       /\ sales[i].quantity_sold = 2


\* C26: an add or a subtract of n that is submitted after a sale of the same
\* product has committed since the dialog was opened loses neither change:
\* the stock it leaves is the stock at the opening of the dialog plus the
\* adjustment minus the quantity sold, that is, the stock the store holds
\* plus the adjustment.
C26_AdjustmentKeepsInterleavedSale ==
  [][\A c \in Clients :
       AdjustWritten(c) =>
         LET call == ui[c].call
             opening == ui[c].selectedProduct[1].store_stock
             sold == opening - call.store_stock
             adjustment == IF ui[c].updateType = "add" THEN call.quantity
                           ELSE 0 - call.quantity
         IN /\ ui[c].updateType \in {"add", "subtract"}
            /\ ui[c].selectedProduct[1].row.current_stock = opening
            /\ sold > 0
            /\ \E i \in DOMAIN sales : sales[i].product_id = call.product_id
            /\ StoreStock(call.product_id) = call.store_stock
            /\ opening + adjustment - sold >= 0
            => products'[call.product_id].current_stock = opening + adjustment - sold]_vars

(***************************************************************************)
(* Properties of the debt view after markPaid.                             *)
(***************************************************************************)
\* The transactions on client c's screen whose sale the store holds as paid.
DisplayedPaid(view) ==
  {i \in DOMAIN view.debtTransactions :
     \E j \in DOMAIN sales :
       /\ sales[j].id = view.debtTransactions[i].id
       /\ sales[j].payment_status = "Lunas"}

\* C27: when the notification of a change of the sales table is delivered to
\* a debt view that shows the transactions of the expanded customer, one of
\* them marked as paid since, the view fetches the debtors and that
\* customer's transactions again, so that the paid sale is no longer on the
\* list.
C27_NotificationRefreshesTransactions ==
  [][\A c \in Clients :
       /\ DebtManagement_onSalesChange(c)
       /\ ui[c].expandedCustomer # ""
       /\ DisplayedPaid(ui[c]) # {}
       => /\ ui'[c].debtors = fetchCustomersWithDebt(sales, customers)
          /\ ui'[c].debtTransactions
               = fetchCustomerDebtTransactions(sales, ui[c].expandedCustomer)
          /\ DisplayedPaid(ui'[c]) = {}]_vars

(***************************************************************************)
(* Properties of the stock over sales, edits and deletions.                *)
(***************************************************************************)
\* No call of any client is under way.
Quiescent == \A c \in Clients : ui[c].pc = "idle"

\* The quantity sold of product p over the sale records that reference it.
SoldOf(p) == SumOf({i \in DOMAIN sales : sales[i].product_id = p}, "quantity_sold")

\* No product was saved on the product page: every product has the prices
\* it started with (the page of the model saves other prices).
NoProductEdited ==
  \A p \in DOMAIN products :
    /\ products[p].purchase_price = 1
    /\ products[p].selling_price = IF p = "P1" THEN 2 ELSE 3

\* C28: stock conservation.  After any sequence of recordSale, editSale and
\* deleteSale calls that went through, for every product the current stock
\* plus the quantity sold over the sale records that reference it is the
\* stock the product started with, as long as no product was edited.
C28_StockIsConserved ==
  Quiescent /\ NoProductEdited =>
    \A p \in DOMAIN products :
      products[p].current_stock + SoldOf(p) = MaxDebtStock


\* C29: deleting the same sale twice, from two terminals or from a sales
\* list fetched before the first delete, gives the sale's quantity back to
\* the product once: where sales are recorded atomically and only deleted,
\* the current stock plus the quantity sold over the remaining sale records
\* never exceeds the stock the product started with.
C29_DeletedSaleRestoredOnce ==
  \A p \in DOMAIN products :
    products[p].current_stock + SoldOf(p) <= MaxDebtStock


(***************************************************************************)
(* Properties of the product dialog's save.                                *)
(***************************************************************************)
\* The step in which client c's product dialog reports that its edit of a
\* product was saved.
ProductSaved(c) ==
  /\ ui[c].page = "ProductManagement"
  /\ ui[c].editingProduct # <<>>
  /\ toast'.kind = "ProductSaved"
  /\ toast'.client = c

\* C30: editing a product's name or prices leaves its current stock
\* unchanged, also when a sale of the product commits between the opening
\* of the dialog and the save: the stock after the save is the stock the
\* store held before it, which is the stock that sale wrote.
C30_ProductEditKeepsStock ==
  [][\A c \in Clients :
       ProductSaved(c) =>
         LET editingProduct == ui[c].editingProduct[1]
             id == editingProduct.id
         IN /\ id \in DOMAIN products
            /\ editingProduct.row.current_stock = editingProduct.store_stock
            => products'[id].current_stock = products[id].current_stock]_vars

=============================================================================
